---- MODULE Spec2Model ----
(***************************************************************************)
(* Model of check_jobs.py (JobChecker): the fetch -> filter -> stable-id   *)
(* -> diff -> notify -> persist pipeline of JobChecker.run, run repeatedly *)
(* against a persisted seen-jobs file.                                     *)
(*                                                                         *)
(* Python strings are modelled as tuples of one-character strings, so that *)
(* substring tests, lower-casing, stripping, URL joining, the composite    *)
(* key and the digest are computed rather than assumed.                    *)
(***************************************************************************)
EXTENDS Integers, Sequences, FiniteSets, TLC

\* ------------------------------------------------------------------------
\* Bounds of the model
\* ------------------------------------------------------------------------

\* number of consecutive invocations of the script that are explored
MaxRuns == 2

\* width in bits of the modelled digest (SHA-256 has 256; a narrow digest
\* makes the collisions that a truncated hash admits actually occur)
DigestBits == 4

\* ------------------------------------------------------------------------
\* Strings
\* ------------------------------------------------------------------------

\* None, and equally the empty string: the code only ever tests these
\* values for truthiness
None == <<>>

Alphabet ==
    <<" ", "#", "-", ".", "/", "0", "1", "2", "3", "4", "5", "6", "7", "8",
      "9", ":", "D", "E", "F", "I", "S", "T", "W", "_", "a", "b", "c", "d",
      "e", "f", "g", "h", "i", "j", "l", "m", "n", "o", "p", "r", "s", "t",
      "u", "v", "w", "x", "y", "|">>

UpperCase == <<"D", "E", "F", "I", "S", "T", "W">>

LowerCase == <<"d", "e", "f", "i", "s", "t", "w">>

\* raw_id.encode("utf-8"): the code point of a character
Code(c) == CHOOSE i \in 1..Len(Alphabet) : Alphabet[i] = c

\* str.lower()
lower(s) ==
    [i \in 1..Len(s) |->
        IF \E j \in 1..Len(UpperCase) : UpperCase[j] = s[i]
        THEN LowerCase[CHOOSE j \in 1..Len(UpperCase) : UpperCase[j] = s[i]]
        ELSE s[i]]

\* Python's  sub in s  on strings
Contains(s, sub) ==
    \E i \in 0..(Len(s) - Len(sub)) : SubSeq(s, i + 1, i + Len(sub)) = sub

\* str.startswith
startswith(s, prefix) ==
    Len(s) >= Len(prefix) /\ SubSeq(s, 1, Len(prefix)) = prefix

\* get_text(strip=True): leading and trailing whitespace removed
strip(s) ==
    LET ink == {i \in 1..Len(s) : s[i] # " "}
        lo == CHOOSE i \in ink : \A j \in ink : i <= j
        hi == CHOOSE i \in ink : \A j \in ink : i >= j
    IN  IF ink = {} THEN <<>> ELSE SubSeq(s, lo, hi)

\* index of the first occurrence of sub in s, 0 when there is none
Find(s, sub) ==
    LET hits == {i \in 1..(Len(s) - Len(sub) + 1) :
                    SubSeq(s, i, i + Len(sub) - 1) = sub}
    IN  IF hits = {} THEN 0 ELSE CHOOSE i \in hits : \A j \in hits : i <= j

\* urlparse(url).netloc of an absolute URL: between "://" and the next "/"
netloc(url) ==
    LET p == Find(url, <<":", "/", "/">>)
        rest == SubSeq(url, p + 3, Len(url))
        q == Find(rest, <<"/">>)
    IN  IF q = 0 THEN rest ELSE SubSeq(rest, 1, q - 1)

\* urljoin(url, href) for a non-empty href that is not a fragment: an
\* absolute href replaces the base, a rooted path keeps scheme and host, a
\* relative path replaces the last segment of the base path
urljoin(url, href) ==
    LET p == Find(url, <<":", "/", "/">>)
        origin == SubSeq(url, 1, p + 2 + Len(netloc(url)))
        slashes == {i \in 1..Len(url) : url[i] = "/"}
        last == CHOOSE i \in slashes : \A j \in slashes : i >= j
    IN  IF Find(href, <<":", "/", "/">>) # 0 THEN href
        ELSE IF href[1] = "/" THEN origin \o href
        ELSE IF last <= p + 2 THEN origin \o <<"/">> \o href
        ELSE SubSeq(url, 1, last) \o href

\* ------------------------------------------------------------------------
\* The catalogue of names, URLs and page contents the model draws from
\* ------------------------------------------------------------------------

NameA == <<"A">>

NameB == <<"B">>

\* a static site, fetched with requests
UrlStatic == <<"h", "t", "t", "p", ":", "/", "/", "a", ".", "i", "o", "/", "j", "o", "b", "s">>

\* a site on the JavaScript list, fetched with Playwright
UrlJs == <<"h", "t", "t", "p", ":", "/", "/", "j", "o", "b", "s", ".", "a", "p", "p", "l", "e", ".", "c", "o", "m", "/", "s">>

Urls == {UrlStatic, UrlJs}

SelJob == <<".", "j", "o", "b">>

ClsJob == <<"j", "o", "b">>

TxtIntern == <<"S", "W", "E", " ", "I", "n", "t", "e", "r", "n">>

TxtSummer == <<"S", "u", "m", "m", "e", "r", " ", "S", "W", "E">>

TxtSenior == <<"S", "e", "n", "i", "o", "r", " ", "S", "W", "E">>

TxtData == <<" ", "D", "a", "t", "a", " ", "I", "n", "t", "e", "r", "n">>

TxtBlank == <<" ">>

Href1 == <<"/", "j", "o", "b", "/", "1">>

Href2 == <<"/", "j", "o", "b", "/", "2">>

HrefAnchor == <<"#", "t", "o", "p">>

HrefAbout == <<"/", "a", "b", "o", "u", "t">>

\* a parsed element: tag, class attribute, href attribute (None when the
\* element has none) and text
El(tag, cls, href, text) ==
    [tag |-> tag, cls |-> cls, href |-> href, text |-> text]

\* two mirrored links to one internship, a senior role, an in-page anchor,
\* a card without a link and a link without text
PageStatic1 ==
    << El("a", ClsJob, Href1, TxtIntern),
       El("a", ClsJob, Href1, TxtIntern),
       El("a", ClsJob, Href2, TxtSenior),
       El("a", None, HrefAnchor, TxtSummer),
       El("div", ClsJob, None, TxtIntern),
       El("a", ClsJob, HrefAbout, TxtBlank) >>

\* the same link under a new title, and a second internship
PageStatic2 ==
    << El("a", ClsJob, Href1, TxtSummer),
       El("a", ClsJob, Href2, TxtData) >>

PageJs1 ==
    << El("a", ClsJob, Href2, TxtSummer),
       El("a", ClsJob, Href1, TxtData) >>

PagesOf(url) ==
    IF url = UrlStatic THEN {PageStatic1, PageStatic2} ELSE {PageJs1}

Site(name, url, selector) == [name |-> name, url |-> url, selector |-> selector]

\* two names on one page, two names on two pages, one name twice
SitesSharedPage ==
    << Site(NameA, UrlStatic, SelJob), Site(NameB, UrlStatic, None) >>

SitesTwoPages ==
    << Site(NameA, UrlStatic, SelJob), Site(NameB, UrlJs, None) >>

SitesSameName ==
    << Site(NameA, UrlStatic, None), Site(NameA, UrlJs, SelJob) >>

\* ------------------------------------------------------------------------
\* JobChecker: classification, fetching, identity
\* ------------------------------------------------------------------------

js_required_sites ==
    { <<"j", "o", "b", "s", ".", "a", "p", "p", "l", "e", ".", "c", "o", "m">>,
      <<"c", "a", "r", "e", "e", "r", "s", ".", "g", "o", "o", "g", "l", "e", ".", "c", "o", "m">>,
      <<"c", "a", "r", "e", "e", "r", "s", ".", "s", "n", "a", "p", ".", "c", "o", "m">>,
      <<"w", "w", "w", ".", "l", "i", "f", "e", "a", "t", "s", "p", "o", "t", "i", "f", "y", ".", "c", "o", "m">>,
      <<"j", "o", "b", "s", ".", "n", "e", "t", "f", "l", "i", "x", ".", "c", "o", "m">>,
      <<"c", "a", "r", "e", "e", "r", "s", ".", "d", "o", "o", "r", "d", "a", "s", "h", ".", "c", "o", "m">> }

requires_js(url) ==
    \E domain \in {lower(netloc(url))} :
        \E js_domain \in js_required_sites : Contains(domain, js_domain)

internship_keywords ==
    << <<"i", "n", "t", "e", "r", "n">>,
       <<"i", "n", "t", "e", "r", "n", "s", "h", "i", "p">>,
       <<"s", "u", "m", "m", "e", "r">>,
       <<"c", "o", "-", "o", "p">>,
       <<"c", "o", " ", "o", "p">>,
       <<"c", "o", "o", "p">>,
       <<"s", "t", "u", "d", "e", "n", "t">>,
       <<"e", "n", "t", "r", "y", " ", "l", "e", "v", "e", "l">>,
       <<"n", "e", "w", " ", "g", "r", "a", "d">>,
       <<"r", "e", "c", "e", "n", "t", " ", "g", "r", "a", "d">>,
       <<"g", "r", "a", "d", "u", "a", "t", "e", " ", "p", "r", "o", "g", "r", "a", "m">> >>

is_internship(job_title) ==
    \E title_lower \in {lower(job_title)} :
        \E k \in 1..Len(internship_keywords) :
            Contains(title_lower, internship_keywords[k])

HexDigits ==
    <<"0", "1", "2", "3", "4", "5", "6", "7", "8", "9", "a", "b", "c", "d", "e", "f">>

RECURSIVE WeightedSum(_, _)
WeightedSum(bytes, i) ==
    IF i > Len(bytes) THEN 0
    ELSE i * Code(bytes[i]) + WeightedSum(bytes, i + 1)

\* hashlib.sha256(bytes): a digest of DigestBits bits, as a number
sha256(bytes) == WeightedSum(bytes, 1) % (2 ^ DigestBits)

\* .hexdigest(): 64 hexadecimal digits, most significant first; the digest
\* bits are the leading bits of the 256, the bits below them are zero
hexdigest(n) ==
    [j \in 1..64 |->
        IF 4 * (j - 1) >= DigestBits THEN "0"
        ELSE HexDigits[(((n * (2 ^ (4 * j))) \div (2 ^ DigestBits)) % 16) + 1]]

\* a variant of job_id that hashes the link alone, so that a title change
\* keeps the id
job_id_link_only(text, link) ==
    SubSeq(hexdigest(sha256(link)), 1, 16)

\* the stable id of a job: the first 16 hex digits of sha256(title|link)
job_id(text, link) ==
    LET raw_id == text \o <<"|">> \o link
    IN  SubSeq(hexdigest(sha256(raw_id)), 1, 16)

\* ------------------------------------------------------------------------
\* State
\* ------------------------------------------------------------------------

VARIABLES
    environ,               \* os.environ: the configuration of the process
    web,                   \* per URL: whether a fetch succeeds, and the page
    state_file,            \* the contents of STATE_FILE on disk
    run_number,            \* how many invocations have been started
    pc,                    \* position of the current invocation in run()
    job_sites,             \* run(): the loaded site configuration
    seen,                  \* run(): the in-memory seen-set
    all_new_jobs_by_site,  \* run(): insertion-ordered dict, site -> new jobs
    total_jobs_found,      \* run(): number of jobs found on all sites
    site_index,            \* run(): position of the per-site loop
    has_new,               \* run(): the summary flag
    email_body,            \* run(): the HTML body, None for ""
    requests_sent,         \* page fetches issued by this invocation
    webhook_posts,         \* webhook POSTs issued by this invocation
    stdout,                \* the result lines printed by this invocation
    github_output_file     \* what this invocation appended to GITHUB_OUTPUT

vars ==
    << environ, web, state_file, run_number, pc, job_sites, seen,
       all_new_jobs_by_site, total_jobs_found, site_index, has_new,
       email_body, requests_sent, webhook_posts, stdout, github_output_file >>

envVars == << environ, web >>

localVars ==
    << job_sites, seen, all_new_jobs_by_site, total_jobs_found, site_index,
       has_new, email_body >>

effectVars == << requests_sent, webhook_posts, stdout, github_output_file >>

\* the empty dict {}
EmptyDict == << >>

\* JOB_SITES_CONFIG: unset, set to text that is not JSON, or set to the
\* JSON of a list of sites
ConfigUnset == [set |-> FALSE, parses |-> FALSE, value |-> <<>>]

ConfigInvalid == [set |-> TRUE, parses |-> FALSE, value |-> <<>>]

ConfigJson(sites) == [set |-> TRUE, parses |-> TRUE, value |-> sites]

\* JOB_URL, JOB_SELECTOR, JOB_SITE_NAME: the single-site shorthand
SingleUnset == [JOB_URL |-> None, JOB_SELECTOR |-> None, JOB_SITE_NAME |-> None]

SingleUrl == [JOB_URL |-> UrlStatic, JOB_SELECTOR |-> SelJob, JOB_SITE_NAME |-> None]

SingleNamed == [JOB_URL |-> UrlStatic, JOB_SELECTOR |-> None, JOB_SITE_NAME |-> NameA]

\* the site configurations explored: each value of JOB_SITES_CONFIG with the
\* shorthand unset, and the shorthand next to an unset, an invalid, an empty
\* and a non-empty JOB_SITES_CONFIG
SiteSources ==
    { <<c, SingleUnset>> :
        c \in {ConfigUnset, ConfigInvalid, ConfigJson(<<>>),
               ConfigJson(SitesSharedPage), ConfigJson(SitesTwoPages),
               ConfigJson(SitesSameName)} }
    \cup { <<c, SingleUrl>> :
        c \in {ConfigUnset, ConfigInvalid, ConfigJson(<<>>),
               ConfigJson(SitesTwoPages)} }
    \cup { <<ConfigUnset, SingleNamed>> }

\* WEBHOOK_URL and GITHUB_OUTPUT
Channels ==
    { [WEBHOOK_URL |-> None, GITHUB_OUTPUT |-> None],
      [WEBHOOK_URL |-> <<"h", "o", "o", "k">>, GITHUB_OUTPUT |-> None],
      [WEBHOOK_URL |-> <<"h", "o", "o", "k">>, GITHUB_OUTPUT |-> <<"o", "u", "t">>] }

Environ(source, channel) ==
    [JOB_SITES_CONFIG |-> source[1], JOB_URL |-> source[2].JOB_URL,
     JOB_SELECTOR |-> source[2].JOB_SELECTOR,
     JOB_SITE_NAME |-> source[2].JOB_SITE_NAME,
     WEBHOOK_URL |-> channel.WEBHOOK_URL,
     GITHUB_OUTPUT |-> channel.GITHUB_OUTPUT]

Environs == { Environ(s, c) : s \in SiteSources, c \in Channels }

Webs == { [u \in Urls |-> IF u = UrlStatic THEN a ELSE b] :
            a \in [up : BOOLEAN, page : PagesOf(UrlStatic)],
            b \in [up : BOOLEAN, page : PagesOf(UrlJs)] }

\* STATE_FILE absent
FileMissing == [exists |-> FALSE, parses |-> FALSE, data |-> EmptyDict]

\* STATE_FILE present but not JSON (a truncated or interrupted write)
FileCorrupt == [exists |-> TRUE, parses |-> FALSE, data |-> EmptyDict]

\* json.dump(seen, f): STATE_FILE holding the JSON object of a dict
FileOf(dict) == [exists |-> TRUE, parses |-> TRUE, data |-> dict]

\* ------------------------------------------------------------------------
\* JobChecker: scraping and extraction
\* ------------------------------------------------------------------------

\* page.content() of a rendered page, "" when Playwright raised
scrape_with_playwright(site_config) ==
    IF web[site_config.url].up THEN web[site_config.url].page ELSE None

\* response.text of a 2xx response, "" when the GET or raise_for_status
\* raised
scrape_with_requests(url) ==
    IF web[url].up THEN web[url].page ELSE None

\* soup.select(selector) for a class selector; without a selector, the
\* anchors whose href mentions "job"
select_elements(html_content, selector) ==
    LET BySelector(el) == <<".">> \o el.cls = selector
        JobLink(el) ==
            /\ el.tag = "a"
            /\ el.href # None
            /\ Contains(lower(el.href), <<"j", "o", "b">>)
    IN  IF selector # None THEN SelectSeq(html_content, BySelector)
        ELSE SelectSeq(html_content, JobLink)

\* the extraction loop of fetch_jobs over the selected elements
extract_jobs(url, elements) ==
    LET Kept(el) ==
            /\ strip(el.text) # <<>>
            /\ is_internship(strip(el.text))
            /\ el.href # None
            /\ ~ startswith(el.href, <<"#">>)
        kept == SelectSeq(elements, Kept)
    IN  [k \in 1..Len(kept) |->
            LET text == strip(kept[k].text)
                link == urljoin(url, kept[k].href)
            IN  [id |-> job_id(text, link), title |-> text, link |-> link]]

\* the parse and extraction of every page of the catalogue under every
\* selector, computed once: extract_jobs does not depend on the state
ExtractedJobs ==
    UNION { { [url |-> u, selector |-> s, html_content |-> p,
               jobs |-> extract_jobs(u, select_elements(p, s))] :
                 s \in {None, SelJob}, p \in PagesOf(u) } : u \in Urls }

\* the URLs of the catalogue that requires_js sends to Playwright, computed
\* once
JsRendered == {u \in Urls : requires_js(u)}

fetch_jobs(site_config) ==
    LET url == site_config.url
        selector == site_config.selector
        html_content ==
            IF url \in JsRendered THEN scrape_with_playwright(site_config)
            ELSE scrape_with_requests(url)
    IN  IF html_content = None THEN <<>>
        ELSE (CHOOSE e \in ExtractedJobs :
                 /\ e.url = url
                 /\ e.selector = selector
                 /\ e.html_content = html_content).jobs

\* ------------------------------------------------------------------------
\* JobChecker: the seen-set store
\* ------------------------------------------------------------------------

\* a variant of load_seen_jobs that always starts from an empty history
load_seen_jobs_forgetful == EmptyDict

load_seen_jobs ==
    IF ~ state_file.exists THEN EmptyDict
    ELSE IF state_file.parses THEN state_file.data
    ELSE EmptyDict

\* a variant of save_seen_jobs that writes back what was on disk instead of
\* the seen-set it is given
save_seen_jobs_stale(seen_) ==
    FileOf(IF state_file.exists /\ state_file.parses
           THEN state_file.data ELSE EmptyDict)

save_seen_jobs(seen_) == FileOf(seen_)

\* a variant of site_job_id that uses the bare job id as the key
site_job_id_bare(site_name, id) == id

\* f"{site_name}::{job['id']}"
site_job_id(site_name, id) == site_name \o <<":", ":">> \o id

\* a variant of diff_jobs that tests each job against the seen-set as it was
\* before the loop, and overwrites on insertion
RECURSIVE diff_jobs_snapshot(_, _, _, _)
diff_jobs_snapshot(site_name, current_jobs, new_jobs, seen_) ==
    IF current_jobs = <<>> THEN [new_jobs |-> new_jobs, seen |-> seen_]
    ELSE LET job == Head(current_jobs)
             key == site_name \o <<":", ":">> \o job.id
             entry == [title |-> job.title, link |-> job.link, site |-> site_name]
         IN  IF key \notin DOMAIN seen
             THEN diff_jobs_snapshot(site_name, Tail(current_jobs),
                      Append(new_jobs, job),
                      [k \in DOMAIN seen_ \cup {key} |->
                          IF k = key THEN entry ELSE seen_[k]])
             ELSE diff_jobs_snapshot(site_name, Tail(current_jobs), new_jobs, seen_)

\* the diff loop of run() over the jobs of one site: the new jobs, and the
\* seen-set after the loop
RECURSIVE diff_jobs(_, _, _, _)
diff_jobs(site_name, current_jobs, new_jobs, seen_) ==
    IF current_jobs = <<>> THEN [new_jobs |-> new_jobs, seen |-> seen_]
    ELSE LET job == Head(current_jobs)
             key == site_job_id(site_name, job.id)
         IN  IF key \notin DOMAIN seen_
             THEN diff_jobs(site_name, Tail(current_jobs),
                            Append(new_jobs, job),
                            (key :> [title |-> job.title, link |-> job.link,
                                     site |-> site_name]) @@ seen_)
             ELSE diff_jobs(site_name, Tail(current_jobs), new_jobs, seen_)

\* ------------------------------------------------------------------------
\* The insertion-ordered dict all_new_jobs_by_site
\* ------------------------------------------------------------------------

DictHas(d, k) == \E i \in 1..Len(d) : d[i].site = k

DictGet(d, k) == d[CHOOSE i \in 1..Len(d) : d[i].site = k].jobs

\* d[k] = v: a new key goes last, an existing key keeps its place
DictSet(d, k, v) ==
    IF DictHas(d, k)
    THEN [i \in 1..Len(d) |-> IF d[i].site = k THEN [site |-> k, jobs |-> v] ELSE d[i]]
    ELSE Append(d, [site |-> k, jobs |-> v])

RECURSIVE SumLen(_)
\* sum(len(jobs) for jobs in d.values())
SumLen(d) == IF d = <<>> THEN 0 ELSE Len(Head(d).jobs) + SumLen(Tail(d))

\* any(d.values())
AnyJobs(d) == \E i \in 1..Len(d) : d[i].jobs # <<>>

\* ------------------------------------------------------------------------
\* JobChecker: notification formatting
\* ------------------------------------------------------------------------

Line(tag, site, title, link, n) ==
    [tag |-> tag, site |-> site, title |-> title, link |-> link, n |-> n]

RECURSIVE JobLines(_, _)
JobLines(tag, jobs) ==
    IF jobs = <<>> THEN <<>>
    ELSE <<Line(tag, None, Head(jobs).title, Head(jobs).link, 0)>>
         \o JobLines(tag, Tail(jobs))

RECURSIVE SiteSections(_, _, _)
SiteSections(d, siteTag, jobTag) ==
    IF d = <<>> THEN <<>>
    ELSE (IF Head(d).jobs # <<>>
          THEN <<Line(siteTag, Head(d).site, None, None, 0)>>
               \o JobLines(jobTag, Head(d).jobs)
          ELSE <<>>)
         \o SiteSections(Tail(d), siteTag, jobTag)

\* the content of the Discord message
webhook_content(d) ==
    <<Line("New internship(s) detected", None, None, None, 0)>>
    \o SiteSections(d, "site", "job")

\* the HTML body: the count line, a section per site with new jobs, the
\* footer
create_email_body(d) ==
    LET total_jobs == SumLen(d)
        sites == Cardinality({i \in 1..Len(d) : d[i].jobs # <<>>})
    IN  <<Line("job-count", None, None, None, total_jobs),
          Line("site-count", None, None, None, sites)>>
        \o SiteSections(d, "site-title", "job-card")
        \o <<Line("footer", None, None, None, 0)>>

\* whether send_webhook_notification gets as far as the POST
webhook_is_posted(webhook_url, d) == ~ (webhook_url = None \/ ~ AnyJobs(d))

\* ------------------------------------------------------------------------
\* JobChecker: configuration
\* ------------------------------------------------------------------------

\* load_job_sites_config: the returned list, or raised
load_job_sites_config ==
    LET config_json == environ.JOB_SITES_CONFIG
        job_url == environ.JOB_URL
        selector == environ.JOB_SELECTOR
        site_name == IF environ.JOB_SITE_NAME # None
                     THEN environ.JOB_SITE_NAME ELSE job_url
    IN  IF config_json.set /\ config_json.parses
        THEN [raised |-> FALSE, value |-> config_json.value]
        ELSE IF job_url # None
        THEN [raised |-> FALSE, value |-> <<Site(site_name, job_url, selector)>>]
        ELSE [raised |-> TRUE, value |-> <<>>]

\* ------------------------------------------------------------------------
\* Initial state: any configuration, any web, no usable state file, and no
\* invocation started
\* ------------------------------------------------------------------------

LocalsInit ==
    /\ job_sites = <<>>
    /\ seen = EmptyDict
    /\ all_new_jobs_by_site = <<>>
    /\ total_jobs_found = 0
    /\ site_index = 1
    /\ has_new = FALSE
    /\ email_body = None

EffectsInit ==
    /\ requests_sent = <<>>
    /\ webhook_posts = <<>>
    /\ stdout = <<>>
    /\ github_output_file = <<>>

Init ==
    /\ environ \in Environs
    /\ web \in Webs
    /\ state_file \in {FileMissing, FileCorrupt}
    /\ run_number = 0
    /\ pc = "Idle"
    /\ LocalsInit
    /\ EffectsInit

\* ------------------------------------------------------------------------
\* run(), one action per stage
\* ------------------------------------------------------------------------

\* the script is invoked (main)
StartRun ==
    /\ pc = "Idle"
    /\ run_number < MaxRuns
    /\ run_number' = run_number + 1
    /\ pc' = "ConfigLoading"
    /\ UNCHANGED << envVars, state_file, localVars, effectVars >>

\* run(): load the configuration, then the seen-set; a RuntimeError of
\* load_job_sites_config ends the process
LoadConfig ==
    /\ pc = "ConfigLoading"
    /\ LET config == load_job_sites_config
       IN  IF config.raised
           THEN /\ pc' = "Failed"
                /\ UNCHANGED localVars
           ELSE /\ pc' = "PerSiteLoop"
                /\ job_sites' = config.value
                /\ seen' = load_seen_jobs
                /\ all_new_jobs_by_site' = <<>>
                /\ total_jobs_found' = 0
                /\ site_index' = 1
                /\ UNCHANGED << has_new, email_body >>
    /\ UNCHANGED << envVars, state_file, run_number, effectVars >>

\* one iteration of the per-site loop
run_site(site_config) ==
    \E current_jobs \in {fetch_jobs(site_config)} :
    \E diff \in {diff_jobs(site_config.name, current_jobs, <<>>, seen)} :
        /\ requests_sent' = Append(requests_sent, site_config.url)
        /\ total_jobs_found' = total_jobs_found + Len(current_jobs)
        /\ seen' = diff.seen
        /\ all_new_jobs_by_site' =
               DictSet(all_new_jobs_by_site, site_config.name, diff.new_jobs)
        /\ site_index' = site_index + 1
        /\ pc' = "PerSiteLoop"
        /\ UNCHANGED << envVars, state_file, run_number, job_sites, has_new,
                        email_body, webhook_posts, stdout, github_output_file >>

\* a variant of SitePass in which the exception of a failed fetch is not
\* caught and ends the process
SitePass_fetch_error_propagates ==
    /\ pc = "PerSiteLoop"
    /\ site_index <= Len(job_sites)
    /\ IF web[job_sites[site_index].url].up
       THEN run_site(job_sites[site_index])
       ELSE /\ pc' = "Failed"
            /\ UNCHANGED << envVars, state_file, run_number, localVars, effectVars >>

SitePass ==
    /\ pc = "PerSiteLoop"
    /\ site_index <= Len(job_sites)
    /\ run_site(job_sites[site_index])

\* the summary after the loop
Aggregate ==
    /\ pc = "PerSiteLoop"
    /\ site_index > Len(job_sites)
    /\ LET total_new_jobs == SumLen(all_new_jobs_by_site)
       IN  has_new' = (total_new_jobs > 0)
    /\ pc' = "Notifying"
    /\ UNCHANGED << envVars, state_file, run_number, job_sites, seen,
                    all_new_jobs_by_site, total_jobs_found, site_index,
                    email_body, effectVars >>

\* a variant of the guard of the notification block that is always taken
notifying_always == TRUE

\* if has_new:
notifying == has_new

\* the email body and the optional webhook; the POST succeeds or raises, and
\* try: send_webhook_notification(...) except Exception: lets the run go on
notify(webhook_raises) ==
    LET webhook_url == environ.WEBHOOK_URL
    IN  IF notifying
        THEN /\ email_body' = create_email_body(all_new_jobs_by_site)
             /\ IF webhook_url # None
                THEN /\ webhook_posts' =
                            IF webhook_is_posted(webhook_url, all_new_jobs_by_site)
                            THEN Append(webhook_posts,
                                        webhook_content(all_new_jobs_by_site))
                            ELSE webhook_posts
                     /\ stdout' = Append(stdout,
                            IF webhook_raises
                            THEN "Failed to send webhook notification"
                            ELSE "Webhook notification sent")
                ELSE UNCHANGED << webhook_posts, stdout >>
        ELSE /\ email_body' = None
             /\ UNCHANGED << webhook_posts, stdout >>

Notify ==
    /\ pc = "Notifying"
    /\ \E webhook_raises \in BOOLEAN :
          /\ (webhook_raises =>
                 webhook_is_posted(environ.WEBHOOK_URL, all_new_jobs_by_site))
          /\ notify(webhook_raises)
    /\ pc' = "Persisting"
    /\ UNCHANGED << envVars, state_file, run_number, job_sites, seen,
                    all_new_jobs_by_site, total_jobs_found, site_index,
                    has_new, requests_sent, github_output_file >>

\* self.save_seen_jobs(seen)
Persist ==
    /\ pc = "Persisting"
    /\ state_file' = save_seen_jobs(seen)
    /\ pc' = "Emitting"
    /\ UNCHANGED << envVars, run_number, localVars, effectVars >>

\* str(has_new).lower()
str_lower(b) ==
    lower(IF b THEN <<"T", "r", "u", "e">> ELSE <<"F", "a", "l", "s", "e">>)

\* the outputs: both values to GITHUB_OUTPUT, or has_new alone to stdout
Emit ==
    /\ pc = "Emitting"
    /\ IF environ.GITHUB_OUTPUT # None
       THEN /\ github_output_file' = github_output_file \o
                   << [name |-> "has_new", value |-> str_lower(has_new)],
                      [name |-> "email_body", value |-> email_body] >>
            /\ UNCHANGED stdout
       ELSE /\ stdout' = Append(stdout, "has_new=" \o
                                 IF has_new THEN "true" ELSE "false")
            /\ UNCHANGED github_output_file
    /\ pc' = "Done"
    /\ UNCHANGED << envVars, state_file, run_number, localVars,
                    requests_sent, webhook_posts >>

\* the process ends: its memory and its per-invocation channels are gone
Exit ==
    /\ pc \in {"Done", "Failed"}
    /\ pc' = "Idle"
    /\ job_sites' = <<>>
    /\ seen' = EmptyDict
    /\ all_new_jobs_by_site' = <<>>
    /\ total_jobs_found' = 0
    /\ site_index' = 1
    /\ has_new' = FALSE
    /\ email_body' = None
    /\ requests_sent' = <<>>
    /\ webhook_posts' = <<>>
    /\ stdout' = <<>>
    /\ github_output_file' = <<>>
    /\ UNCHANGED << envVars, state_file, run_number >>

\* ------------------------------------------------------------------------
\* The world between two invocations
\* ------------------------------------------------------------------------

\* the operator edits the site configuration, or the channels
SetEnviron ==
    /\ pc = "Idle"
    /\ run_number >= 1
    /\ \E e \in Environs :
          /\ e # environ
          /\ \/ /\ e.WEBHOOK_URL = environ.WEBHOOK_URL
                /\ e.GITHUB_OUTPUT = environ.GITHUB_OUTPUT
             \/ /\ e.JOB_SITES_CONFIG = environ.JOB_SITES_CONFIG
                /\ e.JOB_URL = environ.JOB_URL
                /\ e.JOB_SELECTOR = environ.JOB_SELECTOR
                /\ e.JOB_SITE_NAME = environ.JOB_SITE_NAME
          /\ environ' = e
    /\ UNCHANGED << web, state_file, run_number, pc, localVars, effectVars >>

\* a site changes its page, goes down or comes back
SiteChanges ==
    /\ pc = "Idle"
    /\ run_number >= 1
    /\ \E u \in Urls :
          \/ \E p \in PagesOf(u) :
                /\ p # web[u].page
                /\ web' = [web EXCEPT ![u].page = p]
          \/ web' = [web EXCEPT ![u].up = ~ web[u].up]
    /\ UNCHANGED << environ, state_file, run_number, pc, localVars, effectVars >>

\* the state file is lost, or left truncated by an interrupted write
StateFileDamaged ==
    /\ pc = "Idle"
    /\ state_file.exists /\ state_file.parses
    /\ state_file' \in {FileMissing, FileCorrupt}
    /\ UNCHANGED << envVars, run_number, pc, localVars, effectVars >>

Next ==
    \/ StartRun
    \/ LoadConfig
    \/ SitePass
    \/ Aggregate
    \/ Notify
    \/ Persist
    \/ Emit
    \/ Exit
    \/ SetEnviron
    \/ SiteChanges
    \/ StateFileDamaged

Spec == Init /\ [][Next]_vars

\* the same invocation repeated in an unchanging world; every step of a
\* started invocation is eventually taken
NextSameWorld ==
    \/ StartRun
    \/ LoadConfig
    \/ SitePass
    \/ Aggregate
    \/ Notify
    \/ Persist
    \/ Emit
    \/ Exit

\* a started process executes run() to its end: no stage waits for anything
\* but its own calls, and each of those is bounded by a timeout
FairSpec ==
    /\ Init
    /\ [][NextSameWorld]_vars
    /\ WF_vars(LoadConfig)
    /\ WF_vars(SitePass)
    /\ WF_vars(Aggregate)
    /\ WF_vars(Notify)
    /\ WF_vars(Persist)
    /\ WF_vars(Emit)

\* ------------------------------------------------------------------------
\* Vocabulary of the properties
\* ------------------------------------------------------------------------

\* the seen-store a state file holds: what a run that loads it starts from
StoreOf(f) == IF f.exists /\ f.parses THEN f.data ELSE EmptyDict

\* the composite key "site::id", written out
CompositeKey(name, id) == name \o <<":", ":">> \o id

\* the id the data model defines: 16 hex digits of sha256(title|link)
TitleLinkId(title, link) ==
    SubSeq(hexdigest(sha256(title \o <<"|">> \o link)), 1, 16)

\* the new-list the per-site pass stored under a site name
NewListOf(d, name) == IF DictHas(d, name) THEN DictGet(d, name) ELSE <<>>

\* how many records of a list carry an id
CountId(jobs, id) == Cardinality({k \in 1..Len(jobs) : jobs[k].id = id})

\* the step of the per-site loop that processes job_sites[site_index]
AtSite == pc = "PerSiteLoop" /\ site_index <= Len(job_sites)

\* no other configured site carries the name of site i
NameUnique(i) ==
    \A j \in 1..Len(job_sites) : j # i => job_sites[j].name # job_sites[i].name

FetchFails(site) == ~ web[site.url].up

\* the has_new output has been emitted with the value of the flag
HasNewEmitted ==
    \/ \E i \in 1..Len(github_output_file) :
          /\ github_output_file[i].name = "has_new"
          /\ github_output_file[i].value =
                 IF has_new THEN <<"t", "r", "u", "e">>
                 ELSE <<"f", "a", "l", "s", "e">>
    \/ \E i \in 1..Len(stdout) :
          stdout[i] = IF has_new THEN "has_new=true" ELSE "has_new=false"

\* the email body output has been emitted with the body of the run
EmailBodyEmitted ==
    \E i \in 1..Len(github_output_file) :
        /\ github_output_file[i].name = "email_body"
        /\ github_output_file[i].value = email_body

\* ------------------------------------------------------------------------
\* C1  Idempotence of run(): in an unchanging world, a run that follows an
\* earlier one finds no new job on any site, has has_new false and emits it
\* so, and leaves in the state file exactly the seen-set it loaded.
\* ------------------------------------------------------------------------
C1_Idempotent ==
    (run_number >= 2 /\ pc \in {"PerSiteLoop", "Notifying", "Persisting", "Emitting", "Done"})
    => /\ \A i \in 1..Len(all_new_jobs_by_site) :
              all_new_jobs_by_site[i].jobs = <<>>
       /\ has_new = FALSE
       /\ seen = StoreOf(state_file)
       /\ state_file.exists /\ state_file.parses
       /\ pc = "Done" =>
              /\ HasNewEmitted
              /\ \/ stdout = <<"has_new=false">>
                 \/ github_output_file[1].value = <<"f", "a", "l", "s", "e">>

\* a second run over pages with internships has completed
C1_Witness ==
    /\ run_number = 2
    /\ pc = "Done"
    /\ total_jobs_found > 0
    /\ Len(job_sites) = 2
    /\ seen # EmptyDict

\* ------------------------------------------------------------------------
\* C2  Composite-key isolation: when two sites with different names (each
\* name configured once) both produce a job with the same bare id and
\* neither composite key is in the store the run loaded, then after the
\* loop both keys are in the seen-set and the id is in the new-list of each
\* of the two sites exactly once.
\* ------------------------------------------------------------------------
C2_KeyIsolation ==
    pc \in {"Notifying", "Persisting"} =>
        \A i, j \in 1..Len(job_sites) :
            (/\ job_sites[i].name # job_sites[j].name
             /\ NameUnique(i) /\ NameUnique(j))
            => \A a \in 1..Len(fetch_jobs(job_sites[i])) :
                  LET id == fetch_jobs(job_sites[i])[a].id
                      keyI == CompositeKey(job_sites[i].name, id)
                      keyJ == CompositeKey(job_sites[j].name, id)
                  IN  (/\ CountId(fetch_jobs(job_sites[j]), id) > 0
                       /\ keyI \notin DOMAIN StoreOf(state_file)
                       /\ keyJ \notin DOMAIN StoreOf(state_file))
                      => /\ keyI \in DOMAIN seen
                         /\ keyJ \in DOMAIN seen
                         /\ CountId(NewListOf(all_new_jobs_by_site, job_sites[i].name), id) = 1
                         /\ CountId(NewListOf(all_new_jobs_by_site, job_sites[j].name), id) = 1

\* two differently named sites have both reported the same bare id as new
C2_Witness ==
    /\ pc = "Persisting"
    /\ Len(job_sites) = 2
    /\ job_sites[1].name # job_sites[2].name
    /\ \E a \in 1..Len(fetch_jobs(job_sites[1])) :
          LET id == fetch_jobs(job_sites[1])[a].id
          IN  /\ CountId(NewListOf(all_new_jobs_by_site, job_sites[1].name), id) = 1
              /\ CountId(NewListOf(all_new_jobs_by_site, job_sites[2].name), id) = 1
              /\ CompositeKey(job_sites[1].name, id) \in DOMAIN seen
              /\ CompositeKey(job_sites[2].name, id) \in DOMAIN seen

C4_AsClaimed ==
    /\ \A n \in 1..MaxRuns :
          (pc = "PerSiteLoop" /\ run_number = n) ~> (pc = "Done" /\ run_number = n)
    /\ [](pc = "Done" =>
             /\ state_file = FileOf(seen)
             /\ HasNewEmitted
             /\ EmailBodyEmitted)

\* ------------------------------------------------------------------------
\* C5  ConfigLoading fails fatally whenever neither source yields at least
\* one site, an empty JSON list included, before any site is fetched, the
\* seen-set is loaded or saved, or an output is emitted.
\* ------------------------------------------------------------------------
C5_AsClaimed ==
    (/\ pc \notin {"Idle", "ConfigLoading"}
     /\ ~ (/\ environ.JOB_SITES_CONFIG.set
           /\ environ.JOB_SITES_CONFIG.parses
           /\ Len(environ.JOB_SITES_CONFIG.value) >= 1)
     /\ environ.JOB_URL = None)
    => /\ pc = "Failed"
       /\ requests_sent = <<>>
       /\ stdout = <<>>
       /\ github_output_file = <<>>

\* ------------------------------------------------------------------------
\* C6  The persisted store only grows and is write-once per key: no step of
\* a run removes a key from the store in the state file or changes the
\* entry stored under it.
\* ------------------------------------------------------------------------
C6_StoreGrowsWriteOnce ==
    [][ pc # "Idle" =>
            \A k \in DOMAIN StoreOf(state_file) :
                /\ k \in DOMAIN StoreOf(state_file')
                /\ StoreOf(state_file')[k] = StoreOf(state_file)[k]
      ]_vars

\* a later run has saved a store that keeps a key no configured site still
\* shows, next to a key it has just added
C6_Witness ==
    /\ pc = "Emitting"
    /\ run_number >= 2
    /\ has_new
    /\ \E k \in DOMAIN StoreOf(state_file) :
          \A i \in 1..Len(job_sites) :
              \A b \in 1..Len(fetch_jobs(job_sites[i])) :
                  CompositeKey(job_sites[i].name, fetch_jobs(job_sites[i])[b].id) # k

\* ------------------------------------------------------------------------
\* C7  Notification gating: once the summary is made, a run with has_new
\* false has attempted no webhook POST and has the empty email body, which
\* is what it emits; a POST is attempted only with has_new true, a new job
\* in the mapping and WEBHOOK_URL configured.
\* ------------------------------------------------------------------------
C7_NotificationGated ==
    /\ (pc \in {"Persisting", "Emitting", "Done"} /\ ~ has_new)
       => /\ webhook_posts = <<>>
          /\ email_body = None
          /\ stdout \in {<<>>, <<"has_new=false">>}
          /\ \A i \in 1..Len(github_output_file) :
                github_output_file[i].name = "email_body"
                => github_output_file[i].value = None
    /\ webhook_posts # <<>>
       => /\ has_new
          /\ AnyJobs(all_new_jobs_by_site)
          /\ environ.WEBHOOK_URL # None
          /\ Len(webhook_posts) = 1

\* a later run over uniquely named sites is done without new jobs although
\* a webhook is configured and jobs were found
C7_Witness ==
    /\ pc = "Done"
    /\ run_number >= 2
    /\ ~ has_new
    /\ total_jobs_found > 0
    /\ \A i \in 1..Len(job_sites) : NameUnique(i)
    /\ webhook_posts = <<>>
    /\ environ.WEBHOOK_URL # None
    /\ environ.GITHUB_OUTPUT # None
    /\ \E i \in 1..Len(github_output_file) :
          /\ github_output_file[i].name = "email_body"
          /\ github_output_file[i].value = None

\* ------------------------------------------------------------------------
\* C8  Duplicate records within one fetch.
\* As claimed: when a fetch yields two records with the same id and the key
\* is not in the seen-set at the start of the pass, both are appended to
\* the site's new-list and the entry holds the metadata of the last.
\* ------------------------------------------------------------------------
C8_AsClaimed ==
    [][ AtSite =>
          LET site == job_sites[site_index]
              jobs == fetch_jobs(site)
          IN  \A a, b \in 1..Len(jobs) :
                 (/\ a < b
                  /\ jobs[a].id = jobs[b].id
                  /\ \A c \in (b + 1)..Len(jobs) : jobs[c].id # jobs[b].id
                  /\ CompositeKey(site.name, jobs[a].id) \notin DOMAIN seen)
                 => /\ CountId(NewListOf(all_new_jobs_by_site', site.name), jobs[a].id) >= 2
                    /\ seen'[CompositeKey(site.name, jobs[a].id)] =
                           [title |-> jobs[b].title, link |-> jobs[b].link,
                            site |-> site.name]
      ]_vars

\* C8 as amended: when a fetch yields several records with the same id and
\* the key is not in the seen-set at the start of the pass, only the first
\* of them is appended to the site's new-list, and the entry holds the
\* metadata of that first record.
C8_Amended ==
    [][ AtSite =>
          LET site == job_sites[site_index]
              jobs == fetch_jobs(site)
              new_jobs == NewListOf(all_new_jobs_by_site', site.name)
          IN  \A a, b \in 1..Len(jobs) :
                 (/\ a < b
                  /\ jobs[a].id = jobs[b].id
                  /\ \A c \in 1..(a - 1) : jobs[c].id # jobs[a].id
                  /\ CompositeKey(site.name, jobs[a].id) \notin DOMAIN seen)
                 => /\ CountId(new_jobs, jobs[a].id) = 1
                    /\ \E n \in 1..Len(new_jobs) : new_jobs[n] = jobs[a]
                    /\ seen'[CompositeKey(site.name, jobs[a].id)] =
                           [title |-> jobs[a].title, link |-> jobs[a].link,
                            site |-> site.name]
      ]_vars

\* the pass of a site whose fetch holds the same id twice has reported it
C8_Witness ==
    /\ pc = "PerSiteLoop"
    /\ site_index > 1
    /\ LET site == job_sites[site_index - 1]
           jobs == fetch_jobs(site)
       IN  \E a, b \in 1..Len(jobs) :
              /\ a < b
              /\ jobs[a].id = jobs[b].id
              /\ CountId(NewListOf(all_new_jobs_by_site, site.name), jobs[a].id) = 1

\* ------------------------------------------------------------------------
\* C9  A changed title under a stable link.
\* As claimed: when the loaded store holds a job of a site with link L and
\* the site now shows L under a different title, the run does not report
\* the retitled job as new.
\* ------------------------------------------------------------------------
C9_AsClaimed ==
    pc = "Persisting" =>
        \A i \in 1..Len(job_sites) :
            \A b \in 1..Len(fetch_jobs(job_sites[i])) :
                LET job == fetch_jobs(job_sites[i])[b]
                    new_jobs == NewListOf(all_new_jobs_by_site, job_sites[i].name)
                IN  (\E k \in DOMAIN StoreOf(state_file) :
                        /\ StoreOf(state_file)[k].site = job_sites[i].name
                        /\ StoreOf(state_file)[k].link = job.link
                        /\ StoreOf(state_file)[k].title # job.title)
                    => ~ \E n \in 1..Len(new_jobs) :
                            /\ new_jobs[n].title = job.title
                            /\ new_jobs[n].link = job.link

\* C9 as amended: a changed title under a stable link does trigger a
\* re-notification. When the loaded store holds a job of a site with link L
\* and the site shows L under a different title, the pass of that site
\* reports a job with the id of the new (title, L) as new, unless the
\* seen-set already holds an entry of that site whose (title, link) has the
\* same id.
C9_Amended ==
    [][ AtSite =>
          LET site == job_sites[site_index]
              jobs == fetch_jobs(site)
              new_jobs == NewListOf(all_new_jobs_by_site', site.name)
          IN  \A b \in 1..Len(jobs) :
                 LET job == jobs[b]
                     id == TitleLinkId(job.title, job.link)
                     known == \E k \in DOMAIN seen :
                                 /\ seen[k].site = site.name
                                 /\ TitleLinkId(seen[k].title, seen[k].link) = id
                     reported == \E n \in 1..Len(new_jobs) :
                                    TitleLinkId(new_jobs[n].title, new_jobs[n].link) = id
                 IN  (\E k \in DOMAIN StoreOf(state_file) :
                         /\ StoreOf(state_file)[k].site = site.name
                         /\ StoreOf(state_file)[k].link = job.link
                         /\ StoreOf(state_file)[k].title # job.title)
                     => (reported <=> ~ known)
      ]_vars

\* a run has reported as new a job whose link the loaded store already
\* holds for the site under another title
C9_Witness ==
    /\ pc = "Persisting"
    /\ \E i \in 1..Len(job_sites) :
          LET new_jobs == NewListOf(all_new_jobs_by_site, job_sites[i].name)
          IN  \E n \in 1..Len(new_jobs) :
                 \E k \in DOMAIN StoreOf(state_file) :
                    /\ StoreOf(state_file)[k].site = job_sites[i].name
                    /\ StoreOf(state_file)[k].link = new_jobs[n].link
                    /\ StoreOf(state_file)[k].title # new_jobs[n].title

\* ------------------------------------------------------------------------
\* C10  Recorded implies reported: for any list of sites, every job whose
\* key the run inserted into the seen-set is in the aggregated new-job
\* mapping, and has_new is true iff the run inserted at least one key.
\* ------------------------------------------------------------------------
C10_AsClaimed ==
    pc = "Persisting" =>
        LET inserted == DOMAIN seen \ DOMAIN StoreOf(state_file)
        IN  /\ \A k \in inserted :
                  LET new_jobs == NewListOf(all_new_jobs_by_site, seen[k].site)
                  IN  \E n \in 1..Len(new_jobs) :
                         /\ new_jobs[n].title = seen[k].title
                         /\ new_jobs[n].link = seen[k].link
            /\ has_new <=> inserted # {}

====
